---- MODULE Spec2Model ----
(***************************************************************************)
(* Model of create_statistics.py: the aggregators that turn a list of      *)
(* reservation/maintenance events into fleet statistics.                   *)
(*                                                                         *)
(* Time.  A datetime is an integer number of seconds since Monday 00:00:00 *)
(* of an epoch week, so day number 0 is a Monday, as datetime.weekday()    *)
(* numbers it.  A date is a day number.  A timestamp string                *)
(* "YYYY-MM-DD HH:MM:SS" is the record [day |-> d, sec |-> s] of its date  *)
(* part and its time-of-day part; parse_datestamp turns it into a          *)
(* datetime.                                                               *)
(*                                                                         *)
(* Identifiers.  Aircraft and airport identifiers are the integers 1..n;   *)
(* only their equality matters to the code.                                *)
(*                                                                         *)
(* A Python dict is a function whose DOMAIN is its key set.                *)
(***************************************************************************)
EXTENDS Integers, Sequences, FiniteSets, TLC

VARIABLES
    pc,                 \* position of the running aggregator
    start, end, ret,    \* is_weekend: arguments and returned value
    event_list,         \* the events handed to an aggregator
    idx,                \* index of the next event of the for loop
    results,            \* length_histogram: Counter bucket -> count
    histogram,          \* length_histogram: returned OrderedDict, as item list
    deltas_by_name,     \* days_between_usage
    last_event_by_name, \* days_between_usage
    day_of_week_by_name,\* usage_by_weekday
    aircraft, airports, \* availability: gather_aircraft / gather_locations
    aircraft_per_airport,
    available_aircraft_by_airport_and_date,
    current_date, aircraft_seen, airport_usage,
    airport_and_dow_to_mean_available_aircraft

vars == <<pc, start, end, ret, event_list, idx, results, histogram,
          deltas_by_name, last_event_by_name, day_of_week_by_name,
          aircraft, airports, aircraft_per_airport,
          available_aircraft_by_airport_and_date,
          current_date, aircraft_seen, airport_usage,
          airport_and_dow_to_mean_available_aircraft>>

weekendVars == <<start, end, ret>>
histVars == <<results, histogram>>
gapVars == <<deltas_by_name, last_event_by_name>>
usageVars == <<day_of_week_by_name>>
availVars == <<aircraft, airports, aircraft_per_airport,
               available_aircraft_by_airport_and_date,
               current_date, aircraft_seen, airport_usage,
               airport_and_dow_to_mean_available_aircraft>>

----------------------------------------------------------------------------
(* Bounds of the checked instances *)

MaxDay == 3          \* event dates range over 0..MaxDay
MaxEvents == 3       \* longest event list
NumAircraft == 2     \* aircraft identifiers 1..NumAircraft
NumAirports == 2     \* airport identifiers 1..NumAirports
MaxSpanDays == 8     \* is_weekend: longest interval, in days
MaxUsageEvents == 2  \* usage_by_weekday: longest event list

----------------------------------------------------------------------------
(* Time *)

SecondsPerHour == 60 * 60
SecondsPerDay == 60 * 60 * 24

\* times of day (seconds after midnight) the inputs are drawn from:
\* 00:00:00, 01:00:00, 01:30:00, 12:00:00, 23:00:00, 23:59:59
ClockTimes == {0, 3600, 5400, 43200, 82800, 86399}

EmptyDict == <<>>

\* the timestamp string of a datetime
Stamp(t) == [day |-> t \div SecondsPerDay, sec |-> t % SecondsPerDay]

EventLists(Events) ==
    UNION {[1..n -> Events] : n \in 0..MaxEvents}

SetItem(dict, key, value) ==
    [k \in (DOMAIN dict) \cup {key} |-> IF k = key THEN value ELSE dict[k]]

\* Counter[key]: a missing key counts 0
Count(counter, key) == IF key \in DOMAIN counter THEN counter[key] ELSE 0

parse_datestamp(datestr) == datestr.day * SecondsPerDay + datestr.sec

Date(t) == t \div SecondsPerDay

Weekday(t) == Date(t) % 7

DayNames == <<"Monday", "Tuesday", "Wednesday", "Thursday", "Friday",
              "Saturday", "Sunday">>

\* datetime.strftime("%A") and date.strftime("%A")
DayName(date) == DayNames[(date % 7) + 1]

is_event_maintenance(event) == event.Type = "Maintenance"

----------------------------------------------------------------------------
(* is_weekend *)

RECURSIVE ScanDays(_, _)
ScanDays(x, e) ==
    IF x < e
    THEN IF Weekday(x) \in {5, 6} THEN TRUE ELSE ScanDays(x + SecondsPerDay, e)
    ELSE FALSE

\* is_weekend with the long-interval shortcut taken two days too early
is_weekend_early_shortcut(s, e) ==
    IF Weekday(s) \in {5, 6} \/ Weekday(e) \in {5, 6} THEN TRUE
    ELSE IF e - s < SecondsPerDay THEN FALSE
    ELSE IF e - s > 4 * SecondsPerDay THEN TRUE
    ELSE ScanDays(s, e)

is_weekend(s, e) ==
    IF Weekday(s) \in {5, 6} \/ Weekday(e) \in {5, 6} THEN TRUE
    ELSE IF e - s < SecondsPerDay THEN FALSE
    ELSE IF e - s > 6 * SecondsPerDay THEN TRUE
    ELSE ScanDays(s, e)

WeekendStamps == {d * SecondsPerDay + s : d \in 0..6, s \in ClockTimes}

WeekendIdle ==
    /\ event_list = <<>> /\ idx = 1
    /\ results = EmptyDict /\ histogram = <<>>
    /\ deltas_by_name = EmptyDict /\ last_event_by_name = EmptyDict
    /\ day_of_week_by_name = EmptyDict
    /\ aircraft = <<>> /\ airports = <<>> /\ aircraft_per_airport = 0
    /\ available_aircraft_by_airport_and_date = EmptyDict
    /\ current_date = <<>> /\ aircraft_seen = <<>> /\ airport_usage = EmptyDict
    /\ airport_and_dow_to_mean_available_aircraft = EmptyDict

InitWeekend ==
    /\ pc = "is_weekend"
    /\ start \in WeekendStamps
    /\ \E len \in {d * SecondsPerDay + s : d \in 0..MaxSpanDays, s \in ClockTimes} :
          end = start + len
    /\ ret = FALSE
    /\ WeekendIdle

CallIsWeekend ==
    /\ pc = "is_weekend"
    /\ ret' = is_weekend(start, end)
    /\ pc' = "returned"
    /\ UNCHANGED <<start, end, event_list, idx>>
    /\ UNCHANGED <<histVars, gapVars, usageVars, availVars>>

NextWeekend == CallIsWeekend

SpecWeekend == InitWeekend /\ [][NextWeekend]_vars

\* the closed interval [s, e] contains an instant of day d exactly when
\* Date(s) <= d <= Date(e)
TouchesWeekend(s, e) == \E d \in Date(s)..Date(e) : d % 7 \in {5, 6}

\* C3: for start <= end, is_weekend returns True exactly when [start, end]
\* contains an instant of a Saturday or Sunday; in particular True for every
\* interval of 6 days or more, False for a single instant on a Tuesday, True
\* for Friday 23:00 to Saturday 01:00.
C3_IsWeekendExact ==
    pc = "returned" =>
        /\ ret = TouchesWeekend(start, end)
        /\ (end - start >= 6 * SecondsPerDay => ret = TRUE)
        /\ (start = end /\ Weekday(start) = 1 => ret = FALSE)
        /\ (start = 4 * SecondsPerDay + 82800 /\ end = 5 * SecondsPerDay + 3600
               => ret = TRUE)

\* an interval of exactly 6 days between two weekdays has been classified
C3_Witness ==
    /\ pc = "returned"
    /\ end - start = 6 * SecondsPerDay
    /\ Weekday(start) \notin {5, 6} /\ Weekday(end) \notin {5, 6}
    /\ ret = TRUE

----------------------------------------------------------------------------
(* length_histogram *)

\* the quotient truncated instead of rounded up
FloorDiv(a, b) == a \div b

\* int(math.ceil(a / b)) for b > 0
CeilDiv(a, b) == -((-a) \div b)

length_hours(event) ==
    CeilDiv(parse_datestamp(event.End) - parse_datestamp(event.Start),
            SecondsPerHour)

Min(S) == CHOOSE x \in S : \A y \in S : x <= y

\* sorted(results.items(), key=lambda t: t[0])
RECURSIVE SortedItems(_)
SortedItems(dict) ==
    IF DOMAIN dict = {} THEN <<>>
    ELSE LET k == Min(DOMAIN dict)
         IN <<(<<k, dict[k]>>)>> \o SortedItems([j \in (DOMAIN dict) \ {k} |-> dict[j]])

HistDurations == {0, 3600, 5400, 82800, 90000}

HistEvents ==
    {[Aircraft |-> 1, Location |-> 1, Type |-> ty,
      Start |-> [day |-> 0, sec |-> s],
      End |-> Stamp(s + d)] :
        ty \in {"Reservation", "Maintenance"}, s \in {0, 82800},
        d \in HistDurations}

HistIdle ==
    /\ start = 0 /\ end = 0 /\ ret = FALSE
    /\ deltas_by_name = EmptyDict /\ last_event_by_name = EmptyDict
    /\ day_of_week_by_name = EmptyDict
    /\ aircraft = <<>> /\ airports = <<>> /\ aircraft_per_airport = 0
    /\ available_aircraft_by_airport_and_date = EmptyDict
    /\ current_date = <<>> /\ aircraft_seen = <<>> /\ airport_usage = EmptyDict
    /\ airport_and_dow_to_mean_available_aircraft = EmptyDict

InitHist ==
    /\ pc = "length_histogram"
    /\ event_list \in EventLists(HistEvents)
    /\ idx = 1
    /\ results = EmptyDict
    /\ histogram = <<>>
    /\ HistIdle

HistSkipMaintenance ==
    /\ pc = "length_histogram"
    /\ idx <= Len(event_list)
    /\ is_event_maintenance(event_list[idx])
    /\ idx' = idx + 1
    /\ UNCHANGED <<pc, event_list, histVars>>
    /\ UNCHANGED <<weekendVars, gapVars, usageVars, availVars>>

HistCount ==
    /\ pc = "length_histogram"
    /\ idx <= Len(event_list)
    /\ ~is_event_maintenance(event_list[idx])
    /\ LET h == length_hours(event_list[idx])
       IN results' = SetItem(results, h, Count(results, h) + 1)
    /\ idx' = idx + 1
    /\ UNCHANGED <<pc, event_list, histogram>>
    /\ UNCHANGED <<weekendVars, gapVars, usageVars, availVars>>

HistReturn ==
    /\ pc = "length_histogram"
    /\ idx > Len(event_list)
    /\ histogram' = SortedItems(results)
    /\ pc' = "histogram_returned"
    /\ UNCHANGED <<event_list, idx, results>>
    /\ UNCHANGED <<weekendVars, gapVars, usageVars, availVars>>

NextHist == HistSkipMaintenance \/ HistCount \/ HistReturn

SpecHist == InitHist /\ [][NextHist]_vars

RECURSIVE SumValues(_)
SumValues(items) ==
    IF items = <<>> THEN 0 ELSE items[1][2] + SumValues(Tail(items))

Duration(event) == parse_datestamp(event.End) - parse_datestamp(event.Start)

\* h is the number of whole hours that covers the event's duration
CoversInHours(event, h) ==
    /\ (h - 1) * SecondsPerHour < Duration(event)
    /\ Duration(event) <= h * SecondsPerHour

Reservations == {i \in 1..Len(event_list) : ~is_event_maintenance(event_list[i])}

\* C6: length_histogram counts every non-maintenance event once, in the
\* bucket ceil(duration in seconds / 3600), and no maintenance event: the
\* values sum to the number of non-maintenance events, a 90-minute
\* reservation is counted in bucket 2, and the buckets are returned in
\* ascending key order.
C6_HistogramCounts ==
    pc = "histogram_returned" =>
        /\ SumValues(histogram) = Cardinality(Reservations)
        /\ \A n \in 1..Len(histogram) :
              histogram[n][2] =
                Cardinality({i \in Reservations :
                                CoversInHours(event_list[i], histogram[n][1])})
        /\ \A i \in Reservations :
              \E n \in 1..Len(histogram) :
                  CoversInHours(event_list[i], histogram[n][1])
        /\ \A i \in Reservations :
              Duration(event_list[i]) = 5400 =>
                  \E n \in 1..Len(histogram) :
                      histogram[n][1] = 2 /\ histogram[n][2] >= 1
        /\ \A n \in 1..(Len(histogram) - 1) :
              histogram[n][1] < histogram[n + 1][1]

\* a 90-minute reservation, a longer one listed before it and a maintenance
\* event have gone through the histogram
C6_Witness ==
    /\ pc = "histogram_returned"
    /\ \E i, j, k \in 1..Len(event_list) :
          /\ i < j
          /\ ~is_event_maintenance(event_list[i])
          /\ ~is_event_maintenance(event_list[j])
          /\ Duration(event_list[i]) > 5400
          /\ Duration(event_list[j]) = 5400
          /\ is_event_maintenance(event_list[k])
    /\ Len(histogram) = 2
    /\ histogram[1] = <<2, 1>>

----------------------------------------------------------------------------
(* days_between_usage *)

Get(dict, key, default) == IF key \in DOMAIN dict THEN dict[key] ELSE default

\* abs(delta).total_seconds() / (60 * 60 * 24), as the fraction num / den
GapDays(delta) ==
    [num |-> IF delta < 0 THEN -delta ELSE delta, den |-> SecondsPerDay]

GapEvents ==
    {[Aircraft |-> a, Location |-> 1, Type |-> ty,
      Start |-> [day |-> d, sec |-> 43200],
      End |-> Stamp(d * SecondsPerDay + 43200 + len)] :
        a \in 1..NumAircraft, ty \in {"Reservation", "Maintenance"},
        d \in 0..(MaxDay - 1), len \in {3600, SecondsPerDay}}

GapIdle ==
    /\ start = 0 /\ end = 0 /\ ret = FALSE
    /\ results = EmptyDict /\ histogram = <<>>
    /\ day_of_week_by_name = EmptyDict
    /\ aircraft = <<>> /\ airports = <<>> /\ aircraft_per_airport = 0
    /\ available_aircraft_by_airport_and_date = EmptyDict
    /\ current_date = <<>> /\ aircraft_seen = <<>> /\ airport_usage = EmptyDict
    /\ airport_and_dow_to_mean_available_aircraft = EmptyDict

InitGaps ==
    /\ pc = "days_between_usage"
    /\ event_list \in EventLists(GapEvents)
    /\ idx = 1
    /\ deltas_by_name = EmptyDict
    /\ last_event_by_name = EmptyDict
    /\ GapIdle

\* line 124-125: the aircraft's first event
GapFirstEvent ==
    /\ pc = "days_between_usage"
    /\ idx <= Len(event_list)
    /\ LET event == event_list[idx]
       IN /\ event.Aircraft \notin DOMAIN last_event_by_name
          /\ last_event_by_name' =
                SetItem(last_event_by_name, event.Aircraft, event)
    /\ idx' = idx + 1
    /\ UNCHANGED <<pc, event_list, deltas_by_name>>
    /\ UNCHANGED <<weekendVars, histVars, usageVars, availVars>>

\* line 127-131: same-day turnover, left by `continue`
GapSameDay ==
    /\ pc = "days_between_usage"
    /\ idx <= Len(event_list)
    /\ LET event == event_list[idx]
       IN /\ event.Aircraft \in DOMAIN last_event_by_name
          /\ Date(parse_datestamp(event.Start)) =
                Date(parse_datestamp(last_event_by_name[event.Aircraft].End))
    /\ idx' = idx + 1
    /\ UNCHANGED <<pc, event_list, deltas_by_name, last_event_by_name>>
    /\ UNCHANGED <<weekendVars, histVars, usageVars, availVars>>

\* line 134-144: another day; a gap is recorded unless maintenance is on
\* either side
GapOtherDay ==
    /\ pc = "days_between_usage"
    /\ idx <= Len(event_list)
    /\ LET event == event_list[idx]
           name == event.Aircraft
       IN /\ name \in DOMAIN last_event_by_name
          /\ Date(parse_datestamp(event.Start)) #
                Date(parse_datestamp(last_event_by_name[name].End))
          /\ deltas_by_name' =
                IF ~is_event_maintenance(event)
                   /\ ~is_event_maintenance(last_event_by_name[name])
                THEN SetItem(deltas_by_name, name,
                        Append(Get(deltas_by_name, name, <<>>),
                               GapDays(parse_datestamp(event.Start)
                                 - parse_datestamp(last_event_by_name[name].End))))
                ELSE deltas_by_name
          /\ last_event_by_name' = SetItem(last_event_by_name, name, event)
    /\ idx' = idx + 1
    /\ UNCHANGED <<pc, event_list>>
    /\ UNCHANGED <<weekendVars, histVars, usageVars, availVars>>

GapReturn ==
    /\ pc = "days_between_usage"
    /\ idx > Len(event_list)
    /\ pc' = "gaps_returned"
    /\ UNCHANGED <<event_list, idx, gapVars>>
    /\ UNCHANGED <<weekendVars, histVars, usageVars, availVars>>

NextGaps == GapFirstEvent \/ GapSameDay \/ GapOtherDay \/ GapReturn

SpecGaps == InitGaps /\ [][NextGaps]_vars

\* the events of the aircraft among the first n events
EventsOf(name, n) == {i \in 1..n : event_list[i].Aircraft = name}

Max(S) == CHOOSE x \in S : \A y \in S : x >= y

\* C7: after any event of an aircraft has been processed, the tracked
\* previous event of that aircraft is that event, be it after a recorded
\* gap, a same-day skip or a maintenance skip.
C7_PreviousEventAdvances ==
    pc = "days_between_usage" =>
        \A name \in 1..NumAircraft :
            EventsOf(name, idx - 1) # {} =>
                /\ name \in DOMAIN last_event_by_name
                /\ last_event_by_name[name] =
                      event_list[Max(EventsOf(name, idx - 1))]

----------------------------------------------------------------------------
(* usage_by_weekday *)

\* the while loop of line 156-158 on one aircraft's Counter
RECURSIVE WalkDays(_, _, _)

\* the walk counting only the days that fit whole before the end
RECURSIVE WalkWholeDays(_, _, _)
WalkWholeDays(x, e, counter) ==
    IF x + SecondsPerDay <= e
    THEN WalkWholeDays(x + SecondsPerDay, e,
            SetItem(counter, DayName(Date(x)), Count(counter, DayName(Date(x))) + 1))
    ELSE counter

WalkDays(x, e, counter) ==
    IF x < e
    THEN WalkDays(x + SecondsPerDay, e,
            SetItem(counter, DayName(Date(x)), Count(counter, DayName(Date(x))) + 1))
    ELSE counter

UsageLengths ==
    {0, 7200, SecondsPerDay - 1, 2 * SecondsPerDay - 3600, 2 * SecondsPerDay}

UsageEvents ==
    {[Aircraft |-> a, Location |-> 1, Type |-> ty,
      Start |-> Stamp(s), End |-> Stamp(s + len)] :
        a \in 1..NumAircraft, ty \in {"Reservation", "Maintenance"},
        s \in {43200, 82800, 6 * SecondsPerDay + 82800}, len \in UsageLengths}

UsageIdle ==
    /\ start = 0 /\ end = 0 /\ ret = FALSE
    /\ results = EmptyDict /\ histogram = <<>>
    /\ deltas_by_name = EmptyDict /\ last_event_by_name = EmptyDict
    /\ aircraft = <<>> /\ airports = <<>> /\ aircraft_per_airport = 0
    /\ available_aircraft_by_airport_and_date = EmptyDict
    /\ current_date = <<>> /\ aircraft_seen = <<>> /\ airport_usage = EmptyDict
    /\ airport_and_dow_to_mean_available_aircraft = EmptyDict

InitUsage ==
    /\ pc = "usage_by_weekday"
    /\ event_list \in UNION {[1..n -> UsageEvents] : n \in 0..MaxUsageEvents}
    /\ idx = 1
    /\ day_of_week_by_name = EmptyDict
    /\ UsageIdle

UsageSkipMaintenance ==
    /\ pc = "usage_by_weekday"
    /\ idx <= Len(event_list)
    /\ is_event_maintenance(event_list[idx])
    /\ idx' = idx + 1
    /\ UNCHANGED <<pc, event_list, day_of_week_by_name>>
    /\ UNCHANGED <<weekendVars, histVars, gapVars, availVars>>

UsageWalk ==
    /\ pc = "usage_by_weekday"
    /\ idx <= Len(event_list)
    /\ ~is_event_maintenance(event_list[idx])
    /\ LET event == event_list[idx]
           x == parse_datestamp(event.Start)
           e == parse_datestamp(event.End)
           walked == WalkDays(x, e,
                        Get(day_of_week_by_name, event.Aircraft, EmptyDict))
       IN \* the defaultdict makes the aircraft's Counter at the first increment
          day_of_week_by_name' =
             IF walked = EmptyDict /\ event.Aircraft \notin DOMAIN day_of_week_by_name
             THEN day_of_week_by_name
             ELSE SetItem(day_of_week_by_name, event.Aircraft, walked)
    /\ idx' = idx + 1
    /\ UNCHANGED <<pc, event_list>>
    /\ UNCHANGED <<weekendVars, histVars, gapVars, availVars>>

UsageReturn ==
    /\ pc = "usage_by_weekday"
    /\ idx > Len(event_list)
    /\ pc' = "usage_returned"
    /\ UNCHANGED <<event_list, idx, day_of_week_by_name>>
    /\ UNCHANGED <<weekendVars, histVars, gapVars, availVars>>

NextUsage == UsageSkipMaintenance \/ UsageWalk \/ UsageReturn

SpecUsage == InitUsage /\ [][NextUsage]_vars

UsageCount(byName, name, dow) == Count(Get(byName, name, EmptyDict), dow)

\* the calendar days touched by the half-open interval [s, e), s < e
DaysTouched(s, e) == Date(s)..Date(e - 1)

RECURSIVE TouchedTotal(_, _, _)
\* increments to (name, dow) due from the first n events if every event
\* counts once for each calendar day it touches
TouchedTotal(name, dow, n) ==
    IF n = 0 THEN 0
    ELSE LET event == event_list[n]
             s == parse_datestamp(event.Start)
             e == parse_datestamp(event.End)
         IN TouchedTotal(name, dow, n - 1) +
            (IF ~is_event_maintenance(event) /\ event.Aircraft = name /\ s < e
             THEN Cardinality({d \in DaysTouched(s, e) : DayName(d) = dow})
             ELSE 0)

DayNameSet == {DayNames[n] : n \in 1..7}

\* C4: every non-maintenance event with start < end adds one increment to
\* its aircraft's counter for each calendar day touched by [start, end),
\* under that day's weekday name; maintenance events add nothing.
C4_OneIncrementPerDayTouched ==
    pc = "usage_by_weekday" =>
        \A name \in 1..NumAircraft, dow \in DayNameSet :
            UsageCount(day_of_week_by_name, name, dow)
                = TouchedTotal(name, dow, idx - 1)

\* [s, e) contains a midnight
ContainsDayBoundary(s, e) ==
    \E d \in Date(s)..Date(e) : s <= d * SecondsPerDay /\ d * SecondsPerDay < e

\* the event just processed was a reservation of zero or sub-day length
SubDayProcessed ==
    /\ pc = "usage_by_weekday"
    /\ idx > 1
    /\ ~is_event_maintenance(event_list[idx - 1])
    /\ Duration(event_list[idx - 1]) < SecondsPerDay

----------------------------------------------------------------------------
(* aircraft_available_by_airport_and_weekday *)

Range(seq) == {seq[i] : i \in 1..Len(seq)}

RECURSIVE gather_aircraft(_)
gather_aircraft(events) ==
    IF events = <<>> THEN <<>>
    ELSE LET front == gather_aircraft(SubSeq(events, 1, Len(events) - 1))
             evt == events[Len(events)]
         IN IF evt.Aircraft \notin Range(front)
            THEN Append(front, evt.Aircraft) ELSE front

RECURSIVE gather_locations(_)
gather_locations(events) ==
    IF events = <<>> THEN <<>>
    ELSE LET front == gather_locations(SubSeq(events, 1, Len(events) - 1))
             evt == events[Len(events)]
         IN IF evt.Location \notin Range(front)
            THEN Append(front, evt.Location) ELSE front

\* the check that never fires
NeverUneven(aircraftList, airportList) == FALSE

\* line 164-165: mod != 0
UnevenDistribution(aircraftList, airportList) ==
    Len(aircraftList) % Len(airportList) # 0

\* line 180-183: record the finished day for every airport
RecordDay(avail, airportList, date, perAirport, usage) ==
    [a \in (DOMAIN avail) \cup Range(airportList) |->
        IF a \in Range(airportList)
        THEN SetItem(Get(avail, a, EmptyDict), date, perAirport - Count(usage, a))
        ELSE avail[a]]

\* the gap loop running through the new event's date
GapDatesThrough(cur, new) == cur..new

\* line 189-195: the dates the gap loop visits, x = current_date while x < new
GapDates(cur, new) == cur..(new - 1)

\* line 186-195: initialize any gaps
InitializeGaps(avail, airportList, cur, new, perAirport) ==
    IF new - cur > 1
    THEN [a \in (DOMAIN avail) \cup Range(airportList) |->
            IF a \in Range(airportList)
            THEN [d \in (DOMAIN Get(avail, a, EmptyDict)) \cup GapDates(cur, new) |->
                    IF d \in GapDates(cur, new) THEN perAirport ELSE avail[a][d]]
            ELSE avail[a]]
    ELSE avail

\* every event counted as a first sighting
AlwaysUnseen(seen, event) == TRUE

\* line 201: the aircraft has not been seen on the current date
NotSeenToday(seen, event) == event.Aircraft \notin Range(seen)

LateDay == MaxDay + 5

SweepDays == (0..(MaxDay - 1)) \cup {LateDay}

\* a reservation of one hour from noon
SweepEvent(a, l, d) ==
    [Aircraft |-> a, Location |-> l, Type |-> "Reservation",
     Start |-> [day |-> d, sec |-> 43200],
     End |-> [day |-> d, sec |-> 46800]]

SortedByStart(events) ==
    \A i \in 1..(Len(events) - 1) :
        parse_datestamp(events[i].Start) <= parse_datestamp(events[i + 1].Start)

\* only the equality of aircraft identifiers matters to the sweep: the
\* aircraft are numbered in the order the list first mentions them
NumberedAsMet(events) ==
    \A i \in 1..Len(events) :
        \/ events[i].Aircraft = 1
        \/ \E j \in 1..(i - 1) : events[j].Aircraft = events[i].Aircraft - 1

AvailIdle ==
    /\ start = 0 /\ end = 0 /\ ret = FALSE
    /\ results = EmptyDict /\ histogram = <<>>
    /\ deltas_by_name = EmptyDict /\ last_event_by_name = EmptyDict
    /\ day_of_week_by_name = EmptyDict

\* line 260-263, 274: the lists come from the events.  The event list is not
\* empty: gather_metadata (line 266) has already failed on an empty one.
InitAvail ==
    /\ pc = "aircraft_available"
    /\ \E n \in 1..MaxEvents :
          \E days \in [1..n -> SweepDays], who \in [1..n -> 1..NumAircraft],
             where \in [1..n -> 1..NumAirports] :
                event_list = [i \in 1..n |-> SweepEvent(who[i], where[i], days[i])]
    /\ SortedByStart(event_list)
    /\ NumberedAsMet(event_list)
    /\ idx = 1
    /\ aircraft = gather_aircraft(event_list)
    /\ airports = gather_locations(event_list)
    /\ aircraft_per_airport = 0
    /\ available_aircraft_by_airport_and_date = EmptyDict
    /\ current_date = <<>>
    /\ aircraft_seen = <<>>
    /\ airport_usage = EmptyDict
    /\ airport_and_dow_to_mean_available_aircraft = EmptyDict
    /\ AvailIdle

\* line 164-166
AvailRaise ==
    /\ pc = "aircraft_available"
    /\ UnevenDistribution(aircraft, airports)
    /\ pc' = "raised"
    /\ aircraft_per_airport' = Len(aircraft) \div Len(airports)
    /\ UNCHANGED <<event_list, idx, aircraft, airports,
                   available_aircraft_by_airport_and_date, current_date,
                   aircraft_seen, airport_usage,
                   airport_and_dow_to_mean_available_aircraft>>
    /\ UNCHANGED <<weekendVars, histVars, gapVars, usageVars>>

\* line 164-173
AvailEnter ==
    /\ pc = "aircraft_available"
    /\ ~UnevenDistribution(aircraft, airports)
    /\ pc' = "sweep"
    /\ aircraft_per_airport' = Len(aircraft) \div Len(airports)
    /\ UNCHANGED <<event_list, idx, aircraft, airports,
                   available_aircraft_by_airport_and_date, current_date,
                   aircraft_seen, airport_usage,
                   airport_and_dow_to_mean_available_aircraft>>
    /\ UNCHANGED <<weekendVars, histVars, gapVars, usageVars>>

\* line 201-203 on the accumulators as the date test left them
Sight(seen, usage, event) ==
    IF NotSeenToday(seen, event)
    THEN <<Append(seen, event.Aircraft),
           SetItem(usage, event.Location, Count(usage, event.Location) + 1)>>
    ELSE <<seen, usage>>

\* line 175-203, an event on the current date
SweepSameDay ==
    /\ pc = "sweep"
    /\ idx <= Len(event_list)
    /\ LET event == event_list[idx]
           sighted == Sight(aircraft_seen, airport_usage, event)
       IN /\ <<Date(parse_datestamp(event.Start))>> = current_date
          /\ aircraft_seen' = sighted[1]
          /\ airport_usage' = sighted[2]
    /\ idx' = idx + 1
    /\ UNCHANGED <<pc, event_list, aircraft, airports, aircraft_per_airport,
                   available_aircraft_by_airport_and_date, current_date,
                   airport_and_dow_to_mean_available_aircraft>>
    /\ UNCHANGED <<weekendVars, histVars, gapVars, usageVars>>

\* line 175-203, the first event: current_date is None, nothing to record
SweepFirstDay ==
    /\ pc = "sweep"
    /\ idx <= Len(event_list)
    /\ current_date = <<>>
    /\ LET event == event_list[idx]
           sighted == Sight(<<>>, EmptyDict, event)
       IN /\ current_date' = <<Date(parse_datestamp(event.Start))>>
          /\ aircraft_seen' = sighted[1]
          /\ airport_usage' = sighted[2]
    /\ idx' = idx + 1
    /\ UNCHANGED <<pc, event_list, aircraft, airports, aircraft_per_airport,
                   available_aircraft_by_airport_and_date,
                   airport_and_dow_to_mean_available_aircraft>>
    /\ UNCHANGED <<weekendVars, histVars, gapVars, usageVars>>

\* line 175-203, an event on another date than the current one
SweepNewDay ==
    /\ pc = "sweep"
    /\ idx <= Len(event_list)
    /\ current_date # <<>>
    /\ LET event == event_list[idx]
           new == Date(parse_datestamp(event.Start))
           recorded == RecordDay(available_aircraft_by_airport_and_date,
                                 airports, current_date[1],
                                 aircraft_per_airport, airport_usage)
           sighted == Sight(<<>>, EmptyDict, event)
       IN /\ <<new>> # current_date
          /\ available_aircraft_by_airport_and_date' =
                InitializeGaps(recorded, airports, current_date[1], new,
                               aircraft_per_airport)
          /\ current_date' = <<new>>
          /\ aircraft_seen' = sighted[1]
          /\ airport_usage' = sighted[2]
    /\ idx' = idx + 1
    /\ UNCHANGED <<pc, event_list, aircraft, airports, aircraft_per_airport,
                   airport_and_dow_to_mean_available_aircraft>>
    /\ UNCHANGED <<weekendVars, histVars, gapVars, usageVars>>

RECURSIVE SumOver(_, _)
SumOver(f, S) ==
    IF S = {} THEN 0
    ELSE LET x == CHOOSE y \in S : TRUE IN f[x] + SumOver(f, S \ {x})

\* statistics.mean of the values of date_list at the dates, as num / den
Mean(date_list, dates) ==
    [num |-> SumOver(date_list, dates), den |-> Cardinality(dates)]

\* line 205-220: group the dates of every airport by weekday name and take
\* the mean of each group; an airport without dates gets no entry
MeansByWeekday(avail) ==
    [a \in {b \in DOMAIN avail : DOMAIN avail[b] # {}} |->
        [dow \in {DayName(d) : d \in DOMAIN avail[a]} |->
            Mean(avail[a], {d \in DOMAIN avail[a] : DayName(d) = dow})]]

\* line 205-222
AvailReturn ==
    /\ pc = "sweep"
    /\ idx > Len(event_list)
    /\ airport_and_dow_to_mean_available_aircraft' =
          MeansByWeekday(available_aircraft_by_airport_and_date)
    /\ pc' = "available_returned"
    /\ UNCHANGED <<event_list, idx, aircraft, airports, aircraft_per_airport,
                   available_aircraft_by_airport_and_date, current_date,
                   aircraft_seen, airport_usage>>
    /\ UNCHANGED <<weekendVars, histVars, gapVars, usageVars>>

NextAvail ==
    \/ AvailRaise \/ AvailEnter
    \/ SweepFirstDay \/ SweepSameDay \/ SweepNewDay
    \/ AvailReturn

SpecAvail == InitAvail /\ [][NextAvail]_vars

AirportIds == 1..NumAirports

EventDate(i) == Date(parse_datestamp(event_list[i].Start))

LastDate == EventDate(Len(event_list))

FirstDate == EventDate(1)

SweepOver == pc = "sweep" /\ idx > Len(event_list)

\* the events that raise the usage count of the airport on the date: the
\* first event of each aircraft on that date, if it is at the airport
Sightings(date, airport) ==
    {i \in 1..Len(event_list) :
        /\ EventDate(i) = date
        /\ event_list[i].Location = airport
        /\ \A j \in 1..(i - 1) :
              ~(EventDate(j) = date
                /\ event_list[j].Aircraft = event_list[i].Aircraft)}

\* C1: at the end of the sweep, every date D with an event and with a later
\* event date holds, for every airport, aircraft_per_airport minus the
\* airport's usage count of D, whether the next event date is D+1 or later.
C1_FinalizedDayKept ==
    (SweepOver \/ pc = "available_returned") =>
        \A i \in 1..Len(event_list) :
            EventDate(i) < LastDate =>
                \A a \in Range(airports) :
                    /\ a \in DOMAIN available_aircraft_by_airport_and_date
                    /\ EventDate(i) \in
                          DOMAIN available_aircraft_by_airport_and_date[a]
                    /\ available_aircraft_by_airport_and_date[a][EventDate(i)]
                         = aircraft_per_airport
                             - Cardinality(Sightings(EventDate(i), a))

\* the next event of the loop closes the current date
DayBeingFinalized ==
    /\ pc = "sweep"
    /\ idx <= Len(event_list)
    /\ current_date # <<>>
    /\ <<EventDate(idx)>> # current_date

\* C2: when a day is finalized, the usage count of every airport is the
\* number of distinct aircraft with an event starting that day at that
\* airport.
C2_UsageCountsAircraftPerAirport ==
    DayBeingFinalized =>
        \A a \in AirportIds :
            Count(airport_usage, a) =
                Cardinality({event_list[i].Aircraft :
                    i \in {j \in 1..(idx - 1) :
                             /\ EventDate(j) = current_date[1]
                             /\ event_list[j].Location = a}})

EvenSplit ==
    \E k \in 0..Len(aircraft) : k * Len(airports) = Len(aircraft)

\* C5: the call raises the distribution error whenever the number of
\* aircraft is not a multiple of the number of airports, before any event is
\* processed and without any availability mapping; with an even split it
\* does not raise.
C5_UnevenSplitRaises ==
    /\ (~EvenSplit /\ pc # "aircraft_available") => pc = "raised"
    /\ EvenSplit => pc # "raised"
    /\ pc = "raised" =>
          /\ idx = 1
          /\ current_date = <<>>
          /\ aircraft_seen = <<>>
          /\ airport_usage = EmptyDict
          /\ available_aircraft_by_airport_and_date = EmptyDict
          /\ airport_and_dow_to_mean_available_aircraft = EmptyDict

\* the error has been raised on a list of events over several dates
C5_Witness ==
    /\ pc = "raised"
    /\ Len(aircraft) % Len(airports) = 1
    /\ FirstDate < LastDate

\* C8: the date of the last event is never recorded for any airport, the
\* recorded dates being those from the first event's date up to the day
\* before the last event's; so it enters no weekday mean, and events all on
\* one date give an empty result.
C8_LastDayDropped ==
    /\ pc \in {"sweep", "available_returned"} =>
          \A a \in DOMAIN available_aircraft_by_airport_and_date :
              LastDate \notin DOMAIN available_aircraft_by_airport_and_date[a]
    /\ (SweepOver \/ pc = "available_returned") =>
          \A a \in Range(airports) :
              Get(available_aircraft_by_airport_and_date, a, EmptyDict) # EmptyDict
                 => DOMAIN available_aircraft_by_airport_and_date[a]
                      = FirstDate..(LastDate - 1)
    /\ pc = "available_returned" =>
          /\ FirstDate = LastDate =>
                airport_and_dow_to_mean_available_aircraft = EmptyDict
          /\ \A a \in DOMAIN airport_and_dow_to_mean_available_aircraft :
                \A dow \in DOMAIN airport_and_dow_to_mean_available_aircraft[a] :
                    airport_and_dow_to_mean_available_aircraft[a][dow].den =
                        Cardinality({d \in FirstDate..(LastDate - 1) :
                                        DayName(d) = dow})

\* a result has been returned for events over several dates, the last one
\* more than a day after the one before
C8_Witness ==
    /\ pc = "available_returned"
    /\ airport_and_dow_to_mean_available_aircraft # EmptyDict
    /\ Len(event_list) >= 2
    /\ LastDate - EventDate(Len(event_list) - 1) > 1

\* the availability values recorded so far, and the means, are within lo..hi
ValuesWithin(lo, hi) ==
    /\ \A a \in DOMAIN available_aircraft_by_airport_and_date :
          \A d \in DOMAIN available_aircraft_by_airport_and_date[a] :
              /\ lo <= available_aircraft_by_airport_and_date[a][d]
              /\ available_aircraft_by_airport_and_date[a][d] <= hi
    /\ \A a \in DOMAIN airport_and_dow_to_mean_available_aircraft :
          \A dow \in DOMAIN airport_and_dow_to_mean_available_aircraft[a] :
              LET m == airport_and_dow_to_mean_available_aircraft[a][dow]
              IN /\ m.den > 0
                 /\ lo * m.den <= m.num
                 /\ m.num <= hi * m.den

\* C10 as stated: every recorded availability value, and every weekday
\* mean, lies between 0 and aircraft_per_airport.
C10_AvailabilityNonNegative ==
    pc \in {"sweep", "available_returned"} =>
        ValuesWithin(0, aircraft_per_airport)

\* C10 amended: every recorded availability value, and every weekday mean,
\* is at most aircraft_per_airport and at least aircraft_per_airport minus
\* the number of distinct aircraft of the event list; it can be negative.
C10_AvailabilityBounds ==
    pc \in {"sweep", "available_returned"} =>
        ValuesWithin(aircraft_per_airport
                       - Cardinality({event_list[i].Aircraft :
                                         i \in 1..Len(event_list)}),
                     aircraft_per_airport)

\* a negative value has been recorded and averaged
C10_Witness ==
    /\ pc = "available_returned"
    /\ \E a \in DOMAIN available_aircraft_by_airport_and_date :
          \E d \in DOMAIN available_aircraft_by_airport_and_date[a] :
              /\ available_aircraft_by_airport_and_date[a][d] < 0
              /\ airport_and_dow_to_mean_available_aircraft[a][DayName(d)].num < 0

====
